---- MODULE Spec2Model ----
(***************************************************************************)
(* Camera session engine of Vehicle-Analytics-RTSP: the VideoCamera        *)
(* session (src/detect.py, src/services/detect.py), the active_cameras     *)
(* table and its request handlers (src/app.py, src/routes/                 *)
(* camera_routes.py) and the zone store (src/zones.py).                    *)
(*                                                                         *)
(* Request handlers run on the threads of the web server.  A handler is    *)
(* cut into steps at the points where the interpreter can switch threads   *)
(* for a long time: the VideoCamera constructor, the blocking pipe read,   *)
(* the file writes.  _release_capture is one step.                         *)
(***************************************************************************)
EXTENDS Integers, Sequences, FiniteSets, TLC

\* ---- bounds of the model
NumThreads == 2
NumCams == 1
MaxSessions == 2
MaxProcs == 2
MaxFrames == 2
PipeCap == 2
MaxZones == 2
MaxDetections == 2
GridMax == 2
MaxPoints == 4

\* ---- program constants
None == 0
CapMarker == -1

Threads == 1..NumThreads
Cams == 1..NumCams
CamIds == 1..(NumCams + 1)
SessionIds == 1..MaxSessions
ProcIds == 1..MaxProcs

VARIABLES
    use_subprocess_ffmpeg,  \* constructor parameter of every VideoCamera
    config,                 \* camera ids of the user's camera config
    active_cameras,         \* cam id -> session id, None when absent
    nsessions,              \* VideoCamera objects constructed so far
    cam_id,                 \* session -> its camera id
    cap,                    \* session -> None, CapMarker or a capture handle
    ffmpeg_process,         \* session -> None or a decoder process
    is_connected,           \* session -> BOOLEAN
    nprocs,                 \* decoder processes / capture handles opened so far
    proc,                   \* handle -> [state, pipe]
    produced,               \* number of the newest frame of the live stream
    zones_file,             \* cam id -> content of data/zones_<cam>.json
    stats_file,             \* cam id -> "absent", "partial" or "complete"
    pc,                     \* thread -> position in its handler
    tcam,                   \* thread -> cam id of its request
    self,                   \* thread -> session its generate() runs on
    frame,                  \* thread -> frame returned by read_frame, None if none
    exc,                    \* thread -> exception that ended its request
    last,                   \* thread -> newest frame its viewer was sent, None if none
    removed,                \* cam id -> delete_camera removed its files
    constructed,            \* cam id -> sessions constructed after an "absent" check
    transitions,            \* cam id -> absent-to-present changes of its table entry
    registered,             \* session -> it was stored in active_cameras
    stopped,                \* session -> delete_camera released it and dropped its entry
    zone_entries,             \* check_point_in_zones / aggregation: the zone list
    detections,             \* aggregation: the boxes and classes the detector returned
    point,                  \* point_in_polygon / check_point_in_zones: the point
    polygon,                \* point_in_polygon: the polygon
    inside,                 \* point_in_polygon: its result
    zone_idx,               \* check_point_in_zones: its result
    stats_data,             \* aggregation: its result
    overlay,                \* annotation: the zones drawn on the frame
    services_stats,         \* aggregation of src/services/detect.py: its result
    zone_file,              \* zone store: content of the persisted zone file
    loaded,                 \* zone store: what load_zones gave this iteration
    stale                   \* zone store: what it gave the iteration before

sessvars == <<nsessions, cam_id, cap, ffmpeg_process, is_connected>>
procvars == <<nprocs, proc, produced>>
filevars == <<zones_file, stats_file, removed>>
threadvars == <<pc, tcam, self, frame, exc>>
viewvars == <<last>>
tablevars == <<active_cameras, constructed, transitions, registered, stopped>>
storevars == <<zone_file, loaded, stale>>
purevars == <<zone_entries, detections, point, polygon, inside, zone_idx, stats_data,
              overlay, services_stats, storevars>>
vars == <<use_subprocess_ffmpeg, config, sessvars, procvars, filevars,
          threadvars, viewvars, tablevars, purevars>>

\* ---- the zone store (src/zones.py)

\* A zone entry of the persisted list: a dict with a list of points.
Gate == [is_dict |-> TRUE, has_points |-> TRUE, points_is_list |-> TRUE,
         points |-> <<<<0, 0>>, <<100, 0>>, <<100, 100>>, <<0, 100>>>>]

ZoneFile(exists, readable, parses, type, has_zones, zones_is_list, zones) ==
    [exists |-> exists, readable |-> readable, parses |-> parses, type |-> type,
     has_zones |-> has_zones, zones_is_list |-> zones_is_list, zones |-> zones]

FileAbsent == ZoneFile(FALSE, FALSE, FALSE, "none", FALSE, FALSE, <<>>)
FileUnreadable == ZoneFile(TRUE, FALSE, FALSE, "none", FALSE, FALSE, <<>>)
FileNotJson == ZoneFile(TRUE, TRUE, FALSE, "none", FALSE, FALSE, <<>>)
JsonArray == ZoneFile(TRUE, TRUE, TRUE, "array", FALSE, FALSE, <<>>)
JsonNull == ZoneFile(TRUE, TRUE, TRUE, "null", FALSE, FALSE, <<>>)
JsonNoZones == ZoneFile(TRUE, TRUE, TRUE, "object", FALSE, FALSE, <<>>)
JsonZonesNotList == ZoneFile(TRUE, TRUE, TRUE, "object", TRUE, FALSE, <<>>)
JsonZones(zs) == ZoneFile(TRUE, TRUE, TRUE, "object", TRUE, TRUE, zs)

\* Every state of the persisted zone file.
ZoneFileStates == {FileAbsent, FileUnreadable, FileNotJson, JsonArray, JsonNull,
                   JsonNoZones, JsonZonesNotList, JsonZones(<<>>),
                   JsonZones(<<Gate>>)}

\* What the zone editor posts to save_zones in this model: request.get_json()
\* is a zone document or a bare JSON array.
PostedZoneFiles == {JsonArray, JsonZones(<<Gate>>)}

Raised(what) == [raised |-> TRUE, what |-> what, value |-> <<>>]
Returned(v) == [raised |-> FALSE, what |-> "", value |-> v]

\* load_zones: os.path.exists, open, json.load, data.get('zones').
load_zones(f) ==
    IF ~f.exists THEN Returned(<<>>)
    ELSE IF ~f.readable THEN Returned(<<>>)          \* IOError, caught
    ELSE IF ~f.parses THEN Returned(<<>>)            \* JSONDecodeError, caught
    ELSE IF f.type # "object" THEN Raised("AttributeError")   \* data.get on a non-dict
    ELSE IF f.has_zones /\ f.zones_is_list THEN Returned(f.zones)
    ELSE Returned(<<>>)


\* ---- point in polygon and zone lookup (src/zones.py)

\* A result variable before the call (with a placeholder) and after it.
Pending(v) == [set |-> FALSE, value |-> v]
Done(v) == [set |-> TRUE, value |-> v]

\* The index check_point_in_zones returns when no polygon holds the point.
NoZone == -1

Min(a, b) == IF a < b THEN a ELSE b
Max(a, b) == IF a > b THEN a ELSE b

\* k <= num / den for den # 0.  The coordinates of the model are integers of
\* a few digits, on which the float quotient of line 38 orders against an
\* integer as the exact quotient does.
le_quotient(k, num, den) ==
    IF den > 0 THEN k * den <= num ELSE k * den >= num

\* x <= xinters of lines 37-41: xinters is the abscissa of the edge at height
\* y, p1x on a horizontal edge.
left_of_edge(x, y, p1x, p1y, p2x, p2y) ==
    IF p1y # p2y
    THEN le_quotient(x - p1x, (y - p1y) * (p2x - p1x), p2y - p1y)
    ELSE x <= p1x

\* The quotient is reached with the lower bound on y inclusive and without
\* the test p1y != p2y.
division_reached_unguarded(x, y, p1x, p1y, p2x, p2y) ==
    /\ y >= Min(p1y, p2y)
    /\ y <= Max(p1y, p2y)
    /\ x <= Max(p1x, p2x)

\* Lines 34-38: the quotient by p2y - p1y of line 38 is evaluated for the
\* edge p1-p2 and the point (x, y).
division_reached(x, y, p1x, p1y, p2x, p2y) ==
    /\ y > Min(p1y, p2y)
    /\ y <= Max(p1y, p2y)
    /\ x <= Max(p1x, p2x)
    /\ p1y # p2y

\* The edge test without the upper bound on y.
edge_toggles_no_upper(x, y, p1x, p1y, p2x, p2y) ==
    /\ y > Min(p1y, p2y)
    /\ x <= Max(p1x, p2x)
    /\ (p1x = p2x \/ left_of_edge(x, y, p1x, p1y, p2x, p2y))

\* Lines 34-42: the edge p1-p2 flips `inside` for the point (x, y).
edge_toggles(x, y, p1x, p1y, p2x, p2y) ==
    /\ y > Min(p1y, p2y)
    /\ y <= Max(p1y, p2y)
    /\ x <= Max(p1x, p2x)
    /\ (p1x = p2x \/ left_of_edge(x, y, p1x, p1y, p2x, p2y))

\* The loop of lines 31-43 from edge i on: p1 is poly[i], p2 the next point
\* (the first one after the last), ins the value of `inside` so far.
RECURSIVE pip_loop(_, _, _, _)
pip_loop(pt, poly, i, ins) ==
    IF i > Len(poly) THEN ins
    ELSE LET p1 == poly[i]
             p2 == poly[(i % Len(poly)) + 1]
         IN pip_loop(pt, poly, i + 1,
                     IF edge_toggles(pt[1], pt[2], p1[1], p1[2], p2[1], p2[2])
                     THEN ~ins ELSE ins)

point_in_polygon(pt, poly) ==
    IF Len(poly) < 3 THEN FALSE ELSE pip_loop(pt, poly, 1, FALSE)

\* The loop of lines 47-50 run to its end, keeping the last polygon that holds
\* the point instead of returning at the first.
RECURSIVE last_match(_, _, _, _)
last_match(pt, polys, i, found) ==
    IF i > Len(polys) THEN found
    ELSE last_match(pt, polys, i + 1,
                    IF point_in_polygon(pt, polys[i]) THEN i - 1 ELSE found)

check_point_in_zones_last(pt, polys) == last_match(pt, polys, 1, NoZone)

\* The loop of lines 47-50 from polygon i on (the index returned counts from 0).
RECURSIVE first_match(_, _, _)
first_match(pt, polys, i) ==
    IF i > Len(polys) THEN NoZone
    ELSE IF point_in_polygon(pt, polys[i]) THEN i - 1
    ELSE first_match(pt, polys, i + 1)

check_point_in_zones(pt, polys) == first_match(pt, polys, 1)


\* ---- the aggregation of a frame's detections (VideoCamera.generate, lines
\* ---- 141-193 of src/detect.py)

\* The detector's class ids the model draws detections from, and model.names.
ClassIds == {0, 1, 2, 3, 5, 7}
names == [k \in ClassIds |->
             CASE k = 0 -> "person" [] k = 1 -> "bicycle" [] k = 2 -> "car"
               [] k = 3 -> "motorcycle" [] k = 5 -> "bus" [] k = 7 -> "truck"]

\* The tracked classes without the car.
vehicle_class_ids_no_car == {3, 5, 7}

vehicle_class_ids == {2, 3, 5, 7}
exclude_class_ids == {0}

\* Lines 143-148: the zone entries kept, and their point lists.
zone_valid(zone) == zone.is_dict /\ zone.has_points /\ zone.points_is_list
valid_zones(zs) == SelectSeq(zs, zone_valid)
polygons_only(zs) == [i \in 1..Len(valid_zones(zs)) |-> valid_zones(zs)[i].points]

\* Line 166: the centre of the box (x1, y1, x2, y2).  The boxes of the model
\* have even x1 + x2 and y1 + y2, so the float quotient is this integer.
centroid(box) == <<(box[1] + box[3]) \div 2, (box[2] + box[4]) \div 2>>

\* The test of line 175 without its class conditions.
counted_any_class(zi, cls_id) == zi # NoZone

\* Line 175: the detection is kept and counted.
counted(zi, cls_id) ==
    zi # NoZone /\ cls_id \in vehicle_class_ids /\ cls_id \notin exclude_class_ids

\* d[k] = 1, whatever d held for k.
dict_set_one(d, k) == [x \in DOMAIN d \cup {k} |-> IF x = k THEN 1 ELSE d[x]]

\* A dict of counts, and d[k] = d.get(k, 0) + 1.
EmptyDict == [k \in {} |-> 0]
dict_inc(d, k) ==
    [x \in DOMAIN d \cup {k} |->
        IF x = k THEN (IF k \in DOMAIN d THEN d[k] + 1 ELSE 1) ELSE d[x]]

\* A zone is drawn whenever its point list is not empty.
drawable_nonempty(poly) == poly # <<>>

\* Lines 233-238: the zone with point list poly is drawn.
drawable(poly) == poly # <<>> /\ Len(poly) > 2

\* Lines 231-240: the indices (from 0) of the kept zones that are drawn.
drawn_zones(zs) ==
    {i \in 0..(Len(valid_zones(zs)) - 1) : drawable(valid_zones(zs)[i + 1].points)}

\* The zones of an iteration taken from the iteration before when there was one.
zones_cached(f, prev) == IF prev.set THEN prev.value ELSE load_zones(f)

\* Line 139: the zones of an iteration, given the zone file and what the
\* iteration before was given: load_zones(self.zones_file), inside the loop.
zones_of_iteration(f, prev) == load_zones(f)

\* Lines 156-161: the tallies before the first detection.
no_counts(polys) ==
    [total_vehicles |-> 0,
     vehicle_type_counts |-> EmptyDict,
     zone_vehicle_counts |-> [i \in 1..Len(polys) |-> EmptyDict],
     detections_to_plot |-> <<>>]

\* Lines 164-187: the loop over the boxes from detection i on.
RECURSIVE aggregate_loop(_, _, _, _)
aggregate_loop(dets, polys, i, acc) ==
    IF i > Len(dets) THEN acc
    ELSE LET det == dets[i]
             zi == check_point_in_zones(centroid(det.box), polys)
             class_name == names[det.cls_id]
         IN aggregate_loop(dets, polys, i + 1,
                IF counted(zi, det.cls_id)
                THEN [total_vehicles |-> acc.total_vehicles + 1,
                      vehicle_type_counts |->
                          dict_inc(acc.vehicle_type_counts, class_name),
                      zone_vehicle_counts |->
                          IF zi < Len(acc.zone_vehicle_counts)
                          THEN [acc.zone_vehicle_counts EXCEPT
                                   ![zi + 1] = dict_inc(@, class_name)]
                          ELSE acc.zone_vehicle_counts,
                      detections_to_plot |-> Append(acc.detections_to_plot, det)]
                ELSE acc)

\* Lines 141-193: stats_data and detections_to_plot of one frame.
aggregate(dets, zs) ==
    aggregate_loop(dets, polygons_only(zs), 1, no_counts(polygons_only(zs)))

\* ---- the aggregation of src/services/detect.py (VideoCamera.generate,
\* ---- lines 184-241)

\* The tracked classes of the variant without the truck.
services_vehicle_class_ids_no_truck == {2, 3, 5}

\* src/services/detect.py, lines 57-62: self.vehicle_class_ids of the variant.
services_vehicle_class_ids == {2, 3, 5, 7}

\* Lines 198-199: predict(..., classes=desired_class_ids) returns, of what the
\* detector sees in the frame, the detections of the classes asked for.
predict_classes(dets, classes) ==
    LET asked(det) == det.cls_id \in classes
    IN SelectSeq(dets, asked)

\* Line 221: the detection is counted and kept.
counted_services(zi, cls_id) == cls_id \in services_vehicle_class_ids /\ zi # NoZone

\* Lines 201-206: the tallies before the first detection.
no_counts_services(polys) ==
    [total_vehicles |-> 0,
     vehicle_type_counts |-> EmptyDict,
     zone_vehicle_counts |-> [i \in 1..Len(polys) |-> EmptyDict],
     detections_in_zones |-> <<>>]

\* Lines 210-234: the loop over the boxes from detection i on.
RECURSIVE services_loop(_, _, _, _)
services_loop(dets, polys, i, acc) ==
    IF i > Len(dets) THEN acc
    ELSE LET det == dets[i]
             zi == check_point_in_zones(centroid(det.box), polys)
             class_name == names[det.cls_id]
         IN services_loop(dets, polys, i + 1,
                IF counted_services(zi, det.cls_id)
                THEN [total_vehicles |-> acc.total_vehicles + 1,
                      vehicle_type_counts |->
                          dict_inc(acc.vehicle_type_counts, class_name),
                      zone_vehicle_counts |->
                          IF zi < Len(acc.zone_vehicle_counts)
                          THEN [acc.zone_vehicle_counts EXCEPT
                                   ![zi + 1] = dict_inc(@, class_name)]
                          ELSE acc.zone_vehicle_counts,
                      detections_in_zones |-> Append(acc.detections_in_zones, det)]
                ELSE acc)

\* Lines 184-241: stats_data and detections_in_zones of one frame, dets being
\* what the detector sees in it.
aggregate_services(dets, zs) ==
    services_loop(predict_classes(dets, services_vehicle_class_ids),
                  polygons_only(zs), 1, no_counts_services(polygons_only(zs)))


\* ---- the capture (VideoCamera._initialize_capture, read_frame, _release_capture)

NewProc == [state |-> "running", pipe |-> <<>>]
FreeProc == [state |-> "free", pipe |-> <<>>]
DeadProc == [state |-> "dead", pipe |-> <<>>]

\* cv2.VideoCapture.isOpened() of capture handle c under the handle table pr.
isOpened(c, pr) == c \in ProcIds /\ pr[c].state \in {"running", "ended"}

\* _initialize_capture without its try: the error of a failed launch leaves it.
initialize_raises_uncaught(ok) == ~ok

\* Whether an error of the launch leaves _initialize_capture: the try of lines
\* 50-71 catches every Exception of Popen, cv2.VideoCapture does not raise.
initialize_raises(ok) == FALSE

\* _initialize_capture on session s; ok: Popen / VideoCapture opened the source.
initialize_capture(s, ok) ==
    IF ok
    THEN /\ nprocs < MaxProcs
         /\ nprocs' = nprocs + 1
         /\ proc' = [proc EXCEPT ![nprocs + 1] = NewProc]
         /\ IF use_subprocess_ffmpeg
            THEN /\ ffmpeg_process' = [ffmpeg_process EXCEPT ![s] = nprocs + 1]
                 /\ cap' = [cap EXCEPT ![s] = CapMarker]
            ELSE /\ cap' = [cap EXCEPT ![s] = nprocs + 1]
                 /\ UNCHANGED ffmpeg_process
    ELSE /\ UNCHANGED <<nprocs, proc>>
         /\ cap' = [cap EXCEPT ![s] = None]
         /\ IF use_subprocess_ffmpeg
            THEN ffmpeg_process' = [ffmpeg_process EXCEPT ![s] = None]
            ELSE UNCHANGED ffmpeg_process

\* The test of lines 26 and 85 on the capture c just initialised.
capture_failed(c, pr) == c = None \/ (~use_subprocess_ffmpeg /\ ~isOpened(c, pr))

\* _release_capture raises TimeoutExpired: wait(timeout=5) on a decoder that did
\* not exit after terminate(); the kill() of line 125 is then never reached.
release_raises(s, exits) ==
    use_subprocess_ffmpeg /\ ffmpeg_process[s] # None /\ ~exits

\* _release_capture on session s, when it does not raise.
release_capture(s) ==
    IF use_subprocess_ffmpeg
    THEN IF ffmpeg_process[s] # None
         THEN /\ proc' = [proc EXCEPT ![ffmpeg_process[s]] = DeadProc]
              /\ ffmpeg_process' = [ffmpeg_process EXCEPT ![s] = None]
              /\ cap' = [cap EXCEPT ![s] = None]
         ELSE UNCHANGED <<proc, ffmpeg_process, cap>>
    ELSE IF cap[s] # None
         THEN /\ proc' = [proc EXCEPT ![cap[s]] = DeadProc]
              /\ cap' = [cap EXCEPT ![s] = None]
              /\ UNCHANGED ffmpeg_process
         ELSE UNCHANGED <<proc, ffmpeg_process, cap>>

\* _release_capture as a function of the session's cap and ffmpeg_process:
\* whether it raises, and the two fields after it.
release_outcome(c, p, exits) ==
    IF use_subprocess_ffmpeg
    THEN IF p # None
         THEN IF exits
              THEN [raised |-> FALSE, cap |-> None, ffmpeg_process |-> None]
              ELSE [raised |-> TRUE, cap |-> c, ffmpeg_process |-> p]
         ELSE [raised |-> FALSE, cap |-> c, ffmpeg_process |-> p]
    ELSE IF c # None
         THEN [raised |-> FALSE, cap |-> None, ffmpeg_process |-> p]
         ELSE [raised |-> FALSE, cap |-> c, ffmpeg_process |-> p]

\* The handle read_frame reads from.
source_of(s) == IF use_subprocess_ffmpeg THEN ffmpeg_process[s] ELSE cap[s]

Idle(t) ==
    /\ pc' = [pc EXCEPT ![t] = "idle"]
    /\ tcam' = [tcam EXCEPT ![t] = None]
    /\ self' = [self EXCEPT ![t] = None]
    /\ frame' = [frame EXCEPT ![t] = None]
    /\ exc' = [exc EXCEPT ![t] = ""]
    /\ last' = [last EXCEPT ![t] = None]

Raise(t, what) ==
    /\ pc' = [pc EXCEPT ![t] = "raised"]
    /\ exc' = [exc EXCEPT ![t] = what]

\* The program after start: no session, no decoder, no request.
SessionsIdle ==
    /\ active_cameras = [c \in CamIds |-> None]
    /\ nsessions = 0
    /\ cam_id = [s \in SessionIds |-> None]
    /\ cap = [s \in SessionIds |-> None]
    /\ ffmpeg_process = [s \in SessionIds |-> None]
    /\ is_connected = [s \in SessionIds |-> FALSE]
    /\ nprocs = 0
    /\ proc = [h \in ProcIds |-> FreeProc]
    /\ produced = 0
    /\ zones_file = [c \in CamIds |-> FileAbsent]
    /\ stats_file = [c \in CamIds |-> "absent"]
    /\ pc = [t \in Threads |-> "idle"]
    /\ tcam = [t \in Threads |-> None]
    /\ self = [t \in Threads |-> None]
    /\ frame = [t \in Threads |-> None]
    /\ exc = [t \in Threads |-> ""]
    /\ last = [t \in Threads |-> None]
    /\ removed = [c \in CamIds |-> FALSE]
    /\ constructed = [c \in CamIds |-> 0]
    /\ transitions = [c \in CamIds |-> 0]
    /\ registered = [s \in SessionIds |-> FALSE]
    /\ stopped = [s \in SessionIds |-> FALSE]

\* No zone file, and no iteration has loaded it.
StoreIdle ==
    /\ zone_file = FileAbsent
    /\ loaded = Pending(Returned(<<>>))
    /\ stale = Pending(Returned(<<>>))

\* No call of the zone functions or of the aggregation is under way.
PureIdle ==
    /\ zone_entries = <<>>
    /\ detections = <<>>
    /\ point = <<0, 0>>
    /\ polygon = <<>>
    /\ inside = Pending(FALSE)
    /\ zone_idx = Pending(NoZone)
    /\ stats_data = Pending(no_counts(<<>>))
    /\ overlay = Pending({})
    /\ services_stats = Pending(no_counts_services(<<>>))
    /\ StoreIdle

Init ==
    /\ use_subprocess_ffmpeg \in BOOLEAN
    /\ config = Cams
    /\ SessionsIdle
    /\ PureIdle

\* ---- the request handlers (src/app.py)

\* video_feed, lines 146-151: the ownership check and the table lookup.
VfCheck(t, c) ==
    /\ pc[t] = "idle"
    /\ c \in config
    /\ pc' = [pc EXCEPT ![t] =
                IF active_cameras[c] = None THEN "vf_create" ELSE "vf_lookup"]
    /\ tcam' = [tcam EXCEPT ![t] = c]
    /\ UNCHANGED <<purevars, use_subprocess_ffmpeg, config, sessvars, procvars, filevars,
                   self, frame, exc, viewvars, tablevars>>

\* stream_page, lines 128-136: the ownership check and the health test
\* active_cameras[cam_id].cap.isOpened().
SpCheck(t, c) ==
    /\ pc[t] = "idle"
    /\ c \in config
    /\ tcam' = [tcam EXCEPT ![t] = c]
    /\ IF active_cameras[c] = None
       THEN pc' = [pc EXCEPT ![t] = "sp_create"] /\ UNCHANGED exc
       ELSE IF cap[active_cameras[c]] \in {None, CapMarker}
       THEN Raise(t, "AttributeError")
       ELSE IF isOpened(cap[active_cameras[c]], proc)
       THEN pc' = [pc EXCEPT ![t] = "sp_done"] /\ UNCHANGED exc
       ELSE pc' = [pc EXCEPT ![t] = "sp_replace"] /\ UNCHANGED exc
    /\ UNCHANGED <<purevars, use_subprocess_ffmpeg, config, sessvars, procvars, filevars,
                   self, frame, viewvars, tablevars>>

\* active_cameras[cam_id] = VideoCamera(rtsp_url, cam_id): __init__ (lines
\* 12-30 of src/detect.py) and the store of lines 137 and 153 of src/app.py.
Create(t, ok) ==
    /\ pc[t] \in {"vf_create", "sp_create", "sp_replace"}
    /\ nsessions < MaxSessions
    /\ LET s == nsessions + 1
           c == tcam[t]
       IN /\ nsessions' = s
          /\ cam_id' = [cam_id EXCEPT ![s] = c]
          /\ initialize_capture(s, ok)
          /\ is_connected' = [is_connected EXCEPT ![s] = ~capture_failed(cap'[s], proc')]
          /\ IF ~ok /\ initialize_raises(ok)
             THEN /\ Raise(t, "OSError")
                  /\ UNCHANGED tablevars
             ELSE /\ active_cameras' = [active_cameras EXCEPT ![c] = s]
                  /\ registered' = [registered EXCEPT ![s] = TRUE]
                  /\ constructed' = [constructed EXCEPT ![c] =
                         IF pc[t] = "sp_replace" THEN @ ELSE @ + 1]
                  /\ transitions' = [transitions EXCEPT ![c] =
                         IF active_cameras[c] = None THEN @ + 1 ELSE @]
                  /\ pc' = [pc EXCEPT ![t] =
                         IF pc[t] = "vf_create" THEN "vf_lookup" ELSE "sp_done"]
                  /\ UNCHANGED <<exc, stopped>>
    /\ UNCHANGED <<purevars, use_subprocess_ffmpeg, config, produced, filevars,
                   tcam, self, frame, viewvars>>

\* stream_page, line 139: the page is rendered and the request ends.
SpDone(t) ==
    /\ pc[t] = "sp_done"
    /\ Idle(t)
    /\ UNCHANGED <<purevars, use_subprocess_ffmpeg, config, sessvars, procvars, filevars,
                   tablevars>>

\* video_feed, line 155: active_cameras[cam_id].generate() starts a generator
\* of the session for this viewer.
VfLookup(t) ==
    /\ pc[t] = "vf_lookup"
    /\ IF active_cameras[tcam[t]] = None
       THEN Raise(t, "KeyError") /\ UNCHANGED self
       ELSE /\ self' = [self EXCEPT ![t] = active_cameras[tcam[t]]]
            /\ pc' = [pc EXCEPT ![t] = "read_frame"]
            /\ UNCHANGED exc
    /\ UNCHANGED <<purevars, use_subprocess_ffmpeg, config, sessvars, procvars, filevars,
                   tcam, frame, viewvars, tablevars>>

\* delete_camera, line 206: delete_user_camera removes the id from the config.
DelConfig(t, c) ==
    /\ pc[t] = "idle"
    /\ c \in config
    /\ config' = config \ {c}
    /\ tcam' = [tcam EXCEPT ![t] = c]
    /\ pc' = [pc EXCEPT ![t] = "del_session"]
    /\ UNCHANGED <<purevars, use_subprocess_ffmpeg, sessvars, procvars, filevars,
                   self, frame, exc, viewvars, tablevars>>

\* delete_camera, lines 207-209: __del__ (that is _release_capture) of the
\* registered session, then del active_cameras[cam_id].
DelSession(t, exits) ==
    /\ pc[t] = "del_session"
    /\ LET c == tcam[t]
           s == active_cameras[c]
       IN IF s = None
          THEN /\ pc' = [pc EXCEPT ![t] = "del_files"]
               /\ UNCHANGED <<proc, ffmpeg_process, cap, active_cameras, exc,
                              stopped>>
          ELSE IF release_raises(s, exits)
          THEN /\ Raise(t, "TimeoutExpired")
               /\ UNCHANGED <<proc, ffmpeg_process, cap, active_cameras, stopped>>
          ELSE /\ release_capture(s)
               /\ active_cameras' = [active_cameras EXCEPT ![c] = None]
               /\ stopped' = [stopped EXCEPT ![s] = TRUE]
               /\ pc' = [pc EXCEPT ![t] = "del_files"]
               /\ UNCHANGED exc
    /\ UNCHANGED <<purevars, use_subprocess_ffmpeg, config, nsessions, cam_id, is_connected,
                   nprocs, produced, filevars, tcam, self, frame, viewvars,
                   constructed, transitions, registered>>

\* delete_camera, lines 211-216: the zones file and the stats file are removed.
DelFiles(t) ==
    /\ pc[t] = "del_files"
    /\ zones_file' = [zones_file EXCEPT ![tcam[t]] = FileAbsent]
    /\ stats_file' = [stats_file EXCEPT ![tcam[t]] = "absent"]
    /\ removed' = [removed EXCEPT ![tcam[t]] = TRUE]
    /\ Idle(t)
    /\ UNCHANGED <<purevars, use_subprocess_ffmpeg, config, sessvars, procvars, tablevars>>

\* stats, lines 190-198: json.load of the stats file.  It returns {} for an
\* absent file and the snapshot for a complete one; a file the session loop
\* has opened for writing and not yet dumped to does not parse.
Stats(t, c) ==
    /\ pc[t] = "idle"
    /\ c \in config
    /\ IF stats_file[c] = "partial"
       THEN /\ Raise(t, "JSONDecodeError")
            /\ tcam' = [tcam EXCEPT ![t] = c]
       ELSE UNCHANGED <<pc, exc, tcam>>
    /\ UNCHANGED <<purevars, use_subprocess_ffmpeg, config, sessvars, procvars,
                   filevars, self, frame, viewvars, tablevars>>

\* An exception left the handler or the generator: the request ends.
EndRequest(t) ==
    /\ pc[t] = "raised"
    /\ Idle(t)
    /\ UNCHANGED <<purevars, use_subprocess_ffmpeg, config, sessvars, procvars, filevars,
                   tablevars>>

\* save_zones, lines 169-174: the zone editor posts any JSON value.
SaveZones(c, f) ==
    /\ c \in config
    /\ zones_file[c] # f
    /\ zones_file' = [zones_file EXCEPT ![c] = f]
    /\ UNCHANGED <<purevars, use_subprocess_ffmpeg, config, sessvars, procvars, stats_file,
                   removed, threadvars, viewvars, tablevars>>


\* ---- the session loop (VideoCamera.generate and read_frame, src/detect.py)

\* The client closes the connection: the generator, suspended at its yield
\* (or not started yet), is closed.
Detach(t) ==
    /\ pc[t] = "read_frame"
    /\ Idle(t)
    /\ UNCHANGED <<purevars, use_subprocess_ffmpeg, config, sessvars, procvars, filevars,
                   tablevars>>

\* read_frame behind a lock shared by all sessions: no other thread is inside
\* read_frame or the processing of a frame.
may_enter_read_frame_locked(t) ==
    \A u \in Threads \ {t} :
        pc[u] \notin {"reading", "ret_false_slept", "got_frame", "dumping"}

\* What thread t waits for before it enters read_frame: nothing.  generate and
\* read_frame take no lock (self.lock of line 45 is never acquired) and wait
\* for no other session.
may_enter_read_frame(t) == TRUE

\* read_frame, lines 82-92: the reconnect of a session that is not connected.
\* ok: the launch of the decoder (the open of the capture) succeeds.
RfConnect(t, ok) ==
    /\ pc[t] = "read_frame"
    /\ may_enter_read_frame(t)
    /\ LET s == self[t]
       IN IF is_connected[s]
          THEN /\ ok
               /\ pc' = [pc EXCEPT ![t] = "reading"]
               /\ UNCHANGED <<cap, ffmpeg_process, is_connected, nprocs, proc>>
          ELSE /\ initialize_capture(s, ok)
               /\ is_connected' = [is_connected EXCEPT ![s] =
                                      ~capture_failed(cap'[s], proc')]
               /\ pc' = [pc EXCEPT ![t] =
                      IF capture_failed(cap'[s], proc')
                      THEN "ret_false_slept"      \* time.sleep(reconnect_delay)
                      ELSE "reading"]
    /\ UNCHANGED <<purevars, use_subprocess_ffmpeg, config, nsessions, cam_id, produced,
                   filevars, tcam, self, frame, exc, viewvars, tablevars>>

\* read_frame, lines 94-109: the read of the decoder's pipe.  e1, e2: the
\* decoder exits within the wait of the first / the second _release_capture.
RfReadPipe(t, e1, e2) ==
    /\ pc[t] = "reading"
    /\ use_subprocess_ffmpeg
    /\ LET s == self[t]
           p == ffmpeg_process[s]
       IN IF p = None
          THEN \* self.ffmpeg_process.stdout: AttributeError, caught at line 105
               /\ e1 /\ e2
               /\ release_capture(s)
               /\ is_connected' = [is_connected EXCEPT ![s] = FALSE]
               /\ pc' = [pc EXCEPT ![t] = "ret_false"]
               /\ UNCHANGED <<frame, exc>>
          ELSE IF proc[p].pipe # <<>>
          THEN /\ e1 /\ e2
               /\ frame' = [frame EXCEPT ![t] = Head(proc[p].pipe)]
               /\ proc' = [proc EXCEPT ![p].pipe = Tail(@)]
               /\ pc' = [pc EXCEPT ![t] = "got_frame"]
               /\ UNCHANGED <<cap, ffmpeg_process, is_connected, exc>>
          ELSE /\ proc[p].state # "running"      \* a running decoder blocks the read
               /\ e1 => e2
               /\ IF release_raises(s, e1) /\ release_raises(s, e2)
                  THEN \* the release of line 99 raises, and that of line 107 too
                       /\ Raise(t, "TimeoutExpired")
                       /\ UNCHANGED <<cap, ffmpeg_process, is_connected, proc>>
                  ELSE /\ release_capture(s)
                       /\ is_connected' = [is_connected EXCEPT ![s] = FALSE]
                       /\ pc' = [pc EXCEPT ![t] = "ret_false"]
                       /\ UNCHANGED exc
               /\ UNCHANGED frame
    /\ UNCHANGED <<purevars, use_subprocess_ffmpeg, config, nsessions, cam_id, nprocs,
                   produced, filevars, tcam, self, last, tablevars>>

\* read_frame, lines 110-117: cap.read() of the direct capture.
RfReadDirect(t) ==
    /\ pc[t] = "reading"
    /\ ~use_subprocess_ffmpeg
    /\ LET s == self[t]
           h == cap[s]
       IN IF h = None
          THEN \* self.cap.read(): AttributeError, not caught
               /\ Raise(t, "AttributeError")
               /\ UNCHANGED <<is_connected, proc, frame>>
          ELSE IF proc[h].pipe # <<>>
          THEN /\ frame' = [frame EXCEPT ![t] = Head(proc[h].pipe)]
               /\ proc' = [proc EXCEPT ![h].pipe = Tail(@)]
               /\ pc' = [pc EXCEPT ![t] = "got_frame"]
               /\ UNCHANGED <<is_connected, exc>>
          ELSE /\ proc[h].state # "running"
               /\ proc' = [proc EXCEPT ![h] = DeadProc]      \* self.cap.release()
               /\ is_connected' = [is_connected EXCEPT ![s] = FALSE]
               /\ pc' = [pc EXCEPT ![t] = "ret_false"]
               /\ UNCHANGED <<frame, exc>>
    /\ UNCHANGED <<purevars, use_subprocess_ffmpeg, config, nsessions, cam_id, cap,
                   ffmpeg_process, nprocs, produced, filevars, tcam, self, last,
                   tablevars>>

\* generate, lines 136-137: no frame, the loop continues.
Continue(t) ==
    /\ pc[t] \in {"ret_false", "ret_false_slept"}
    /\ pc' = [pc EXCEPT ![t] = "read_frame"]
    /\ UNCHANGED <<purevars, use_subprocess_ffmpeg, config, sessvars, procvars, filevars,
                   tcam, self, frame, exc, viewvars, tablevars>>

\* The frame of thread t is encoded and yielded to its viewer.
Yield(t) ==
    /\ last' = [last EXCEPT ![t] = frame[t]]
    /\ frame' = [frame EXCEPT ![t] = None]
    /\ pc' = [pc EXCEPT ![t] = "read_frame"]

\* generate, lines 139-195: load_zones and the zone validation, outside the
\* try; then detection, aggregation and the open of the stats file inside it.
\* processed: nothing raises between predict and open(self.stats_file, 'w').
Process(t, processed) ==
    /\ pc[t] = "got_frame"
    /\ LET c == cam_id[self[t]]
           zones_data == load_zones(zones_file[c])
       IN IF zones_data.raised
          THEN /\ processed
               /\ Raise(t, zones_data.what)
               /\ UNCHANGED <<stats_file, frame, last>>
          ELSE IF processed
          THEN /\ stats_file' = [stats_file EXCEPT ![c] = "partial"]
               /\ pc' = [pc EXCEPT ![t] = "dumping"]
               /\ UNCHANGED <<frame, last, exc>>
          ELSE \* except Exception, lines 247-252: the raw frame is yielded
               /\ Yield(t)
               /\ UNCHANGED <<stats_file, exc>>
    /\ UNCHANGED <<purevars, use_subprocess_ffmpeg, config, sessvars, procvars, zones_file,
                   removed, tcam, self, tablevars>>

\* generate, lines 196-245: json.dump of the snapshot, the annotation, the
\* yield of the annotated frame (of the raw frame when the annotation raises).
Dump(t) ==
    /\ pc[t] = "dumping"
    /\ stats_file' = [stats_file EXCEPT ![cam_id[self[t]]] = "complete"]
    /\ Yield(t)
    /\ UNCHANGED <<purevars, use_subprocess_ffmpeg, config, sessvars, procvars, zones_file,
                   removed, tcam, self, exc, tablevars>>

\* ---- the camera and its decoder

\* The source delivers its next frame to handle h: the decoder writes it to
\* its pipe (and waits while the pipe is full); the direct capture, opened
\* with a buffer of one frame, keeps the newest.
Produce(h) ==
    /\ proc[h].state = "running"
    /\ produced < MaxFrames
    /\ use_subprocess_ffmpeg => Len(proc[h].pipe) < PipeCap
    /\ produced' = produced + 1
    /\ proc' = [proc EXCEPT ![h].pipe =
                   IF use_subprocess_ffmpeg THEN Append(@, produced + 1)
                   ELSE <<produced + 1>>]
    /\ UNCHANGED <<purevars, use_subprocess_ffmpeg, config, sessvars, nprocs, filevars,
                   threadvars, viewvars, tablevars>>

\* The stream of handle h ends (the camera is unreachable, the decoder stops).
SourceEnd(h) ==
    /\ proc[h].state = "running"
    /\ proc' = [proc EXCEPT ![h].state = "ended"]
    /\ UNCHANGED <<purevars, use_subprocess_ffmpeg, config, sessvars, nprocs, produced,
                   filevars, threadvars, viewvars, tablevars>>

Next ==
    \/ \E t \in Threads, c \in Cams : VfCheck(t, c)
    \/ \E t \in Threads, c \in Cams : SpCheck(t, c)
    \/ \E t \in Threads, ok \in BOOLEAN : Create(t, ok)
    \/ \E t \in Threads : SpDone(t)
    \/ \E t \in Threads : VfLookup(t)
    \/ \E t \in Threads, c \in Cams : DelConfig(t, c)
    \/ \E t \in Threads, exits \in BOOLEAN : DelSession(t, exits)
    \/ \E t \in Threads : DelFiles(t)
    \/ \E t \in Threads, c \in Cams : Stats(t, c)
    \/ \E t \in Threads : EndRequest(t)
    \/ \E c \in Cams, f \in PostedZoneFiles : SaveZones(c, f)
    \/ \E t \in Threads : Detach(t)
    \/ \E t \in Threads, ok \in BOOLEAN : RfConnect(t, ok)
    \/ \E t \in Threads, e1, e2 \in BOOLEAN : RfReadPipe(t, e1, e2)
    \/ \E t \in Threads : RfReadDirect(t)
    \/ \E t \in Threads : Continue(t)
    \/ \E t \in Threads, processed \in BOOLEAN : Process(t, processed)
    \/ \E t \in Threads : Dump(t)
    \/ \E h \in ProcIds : Produce(h)
    \/ \E h \in ProcIds : SourceEnd(h)

Spec == Init /\ [][Next]_vars

\* The steps thread t takes on its own once its request was accepted: its
\* handler and the session loop of its viewer.  The arrival of a request,
\* the close of the connection by the client and the camera are not among them.
Step(t) ==
    \/ \E ok \in BOOLEAN : Create(t, ok)
    \/ SpDone(t)
    \/ VfLookup(t)
    \/ \E exits \in BOOLEAN : DelSession(t, exits)
    \/ DelFiles(t)
    \/ EndRequest(t)
    \/ \E ok \in BOOLEAN : RfConnect(t, ok)
    \/ \E e1, e2 \in BOOLEAN : RfReadPipe(t, e1, e2)
    \/ RfReadDirect(t)
    \/ Continue(t)
    \/ \E processed \in BOOLEAN : Process(t, processed)
    \/ Dump(t)

\* The threads of the server are scheduled: a thread that can take a step
\* takes one.
FairSpec == Spec /\ \A t \in Threads : WF_vars(Step(t))

\* ---- the viewers of two cameras

\* The user's config holds every camera id.
CamsInit ==
    /\ use_subprocess_ffmpeg \in BOOLEAN
    /\ config = CamIds
    /\ SessionsIdle
    /\ PureIdle

\* One iteration step of the session loop of thread t.
LoopStep(t) ==
    \/ \E ok \in BOOLEAN : RfConnect(t, ok)
    \/ \E e1, e2 \in BOOLEAN : RfReadPipe(t, e1, e2)
    \/ RfReadDirect(t)
    \/ Continue(t)
    \/ \E processed \in BOOLEAN : Process(t, processed)
    \/ Dump(t)

\* Viewers attach to the cameras and detach, their loops run, the cameras
\* deliver frames.
CamsNext ==
    \/ \E t \in Threads, c \in CamIds : VfCheck(t, c)
    \/ \E t \in Threads, ok \in BOOLEAN : Create(t, ok)
    \/ \E t \in Threads : VfLookup(t)
    \/ \E t \in Threads : Detach(t)
    \/ \E t \in Threads : LoopStep(t)
    \/ \E t \in Threads : EndRequest(t)
    \/ \E h \in ProcIds : Produce(h)
    \/ \E h \in ProcIds : SourceEnd(h)

CamsSpec == CamsInit /\ [][CamsNext]_vars

\* ---- the zone functions and the aggregation on their own

sessionvars == <<use_subprocess_ffmpeg, config, sessvars, procvars, filevars,
                 threadvars, viewvars, tablevars>>

\* Every sequence over S of length lo to hi.
SeqsOf(S, lo, hi) == UNION {[1..n -> S] : n \in lo..hi}

\* Zone entries of a persisted list: the gate, a lane that overlaps it, a zone
\* of two points, and an entry that is no dict.
Lane == [is_dict |-> TRUE, has_points |-> TRUE, points_is_list |-> TRUE,
         points |-> <<<<60, 0>>, <<160, 0>>, <<160, 100>>, <<60, 100>>>>]
Stub == [is_dict |-> TRUE, has_points |-> TRUE, points_is_list |-> TRUE,
         points |-> <<<<0, 0>>, <<100, 100>>>>]
NotADict == [is_dict |-> FALSE, has_points |-> FALSE, points_is_list |-> FALSE,
             points |-> <<>>]
ZoneEntries == {Gate, Lane, Stub, NotADict}

\* Boxes of detections: centred in the gate only, in the gate and the lane, in
\* the lane only, in no zone.
Boxes == {<<40, 40, 60, 60>>, <<70, 40, 90, 60>>, <<100, 40, 140, 60>>,
          <<190, 190, 210, 210>>}
Detections == [box : Boxes, cls_id : ClassIds]

AggInit ==
    /\ use_subprocess_ffmpeg = TRUE
    /\ config = Cams
    /\ SessionsIdle
    /\ zone_entries \in SeqsOf(ZoneEntries, 0, MaxZones)
    /\ detections \in SeqsOf(Detections, 0, MaxDetections)
    /\ point \in {centroid(b) : b \in Boxes}
    /\ polygon = <<>>
    /\ inside = Pending(FALSE)
    /\ zone_idx = Pending(NoZone)
    /\ stats_data = Pending(no_counts(<<>>))
    /\ overlay = Pending({})
    /\ services_stats = Pending(no_counts_services(<<>>))
    /\ StoreIdle

\* generate, line 172: zone_idx = check_point_in_zones((cx, cy), polygons_only).
CheckPoint ==
    /\ ~zone_idx.set
    /\ zone_idx' = Done(check_point_in_zones(point, polygons_only(zone_entries)))
    /\ UNCHANGED <<sessionvars, zone_entries, detections, point, polygon, inside,
                   stats_data, overlay, services_stats, storevars>>

\* generate, lines 141-193: the tallies of the frame's detections.
Aggregate ==
    /\ ~stats_data.set
    /\ stats_data' = Done(aggregate(detections, zone_entries))
    /\ UNCHANGED <<sessionvars, zone_entries, detections, point, polygon, inside,
                   zone_idx, overlay, services_stats, storevars>>

\* generate, lines 231-240: the overlay and the outline of the zones kept.
Annotate ==
    /\ ~overlay.set
    /\ overlay' = Done(drawn_zones(zone_entries))
    /\ UNCHANGED <<sessionvars, zone_entries, detections, point, polygon, inside,
                   zone_idx, stats_data, services_stats, storevars>>

\* generate of src/services/detect.py, lines 184-241: the tallies of the
\* frame's detections.
AggregateServices ==
    /\ ~services_stats.set
    /\ services_stats' = Done(aggregate_services(detections, zone_entries))
    /\ UNCHANGED <<sessionvars, zone_entries, detections, point, polygon, inside,
                   zone_idx, stats_data, overlay, storevars>>

AggNext == CheckPoint \/ Aggregate \/ Annotate \/ AggregateServices

AggSpec == AggInit /\ [][AggNext]_vars

\* The points of the grid polygons are drawn from, and the points probed:
\* the grid and a margin of one around it.
Grid == (0..GridMax) \X (0..GridMax)
Probes == (-1..(GridMax + 1)) \X (-1..(GridMax + 1))

PolyInit ==
    /\ use_subprocess_ffmpeg = TRUE
    /\ config = Cams
    /\ SessionsIdle
    /\ zone_entries = <<>>
    /\ detections = <<>>
    /\ point \in Probes
    /\ polygon \in SeqsOf(Grid, 3, MaxPoints)
    /\ inside = Pending(FALSE)
    /\ zone_idx = Pending(NoZone)
    /\ stats_data = Pending(no_counts(<<>>))
    /\ overlay = Pending({})
    /\ services_stats = Pending(no_counts_services(<<>>))
    /\ StoreIdle

\* check_point_in_zones, line 48: point_in_polygon(point, polygon).
PointInPolygon ==
    /\ ~inside.set
    /\ inside' = Done(point_in_polygon(point, polygon))
    /\ UNCHANGED <<sessionvars, zone_entries, detections, point, polygon, zone_idx,
                   stats_data, overlay, services_stats, storevars>>

PolyNext == PointInPolygon

PolySpec == PolyInit /\ [][PolyNext]_vars

\* The persisted zone file: every state of ZoneFileStates and every zone
\* document with a list of zone entries.
ZoneFiles ==
    ZoneFileStates \cup {JsonZones(zs) : zs \in SeqsOf(ZoneEntries, 0, MaxZones)}

StoreInit ==
    /\ use_subprocess_ffmpeg = TRUE
    /\ config = Cams
    /\ SessionsIdle
    /\ PureIdle

\* save_zones, lines 169-174 of src/app.py: the zone editor writes the file
\* (or the file is removed or damaged).
EditZones(f) ==
    /\ zone_file # f
    /\ zone_file' = f
    /\ UNCHANGED <<sessionvars, zone_entries, detections, point, polygon, inside,
                   zone_idx, stats_data, overlay, services_stats, loaded, stale>>

\* generate, line 139: an iteration that has a frame loads the zones.
LoadZones ==
    /\ stale' = loaded
    /\ loaded' = Done(zones_of_iteration(zone_file, loaded))
    /\ UNCHANGED <<sessionvars, zone_entries, detections, point, polygon, inside,
                   zone_idx, stats_data, overlay, services_stats, zone_file>>

StoreNext == (\E f \in ZoneFiles : EditZones(f)) \/ LoadZones

StoreSpec == StoreInit /\ [][StoreNext]_vars

TypeOK ==
    /\ config \subseteq Cams
    /\ nsessions \in 0..MaxSessions
    /\ nprocs \in 0..MaxProcs
    /\ produced \in 0..MaxFrames
    /\ \A c \in Cams : zones_file[c] \in ZoneFileStates
    /\ \A c \in Cams : stats_file[c] \in {"absent", "partial", "complete"}


\* ---- the claims

\* The viewer threads whose generator is running on session s.
Viewers(s) == {t \in Threads : self[t] = s /\ pc[t] # "raised"}

\* A session that is connected to a running source.
Healthy(s) ==
    /\ s # None
    /\ is_connected[s]
    /\ source_of(s) \in ProcIds
    /\ proc[source_of(s)].state = "running"

\* Frame f was sent to the viewer of thread t, or t holds it for its viewer.
Sent(t, f) == last[t] = f \/ frame[t] = f

\* Frame f waits to be read from the source of session s.
Queued(s, f) ==
    /\ source_of(s) \in ProcIds
    /\ \E i \in 1..Len(proc[source_of(s)].pipe) : proc[source_of(s)].pipe[i] = f

\* C1: for every session, at most one thread at a time is inside read_frame,
\* reading the session's capture handle or decoder pipe, however many viewers
\* are attached.
C1_SingleReader ==
    \A s \in SessionIds :
        Cardinality({t \in Threads : self[t] = s /\ pc[t] = "reading"}) <= 1

\* C2: once delete_camera has removed the stats file of a camera, no loop
\* iteration of the camera's session writes that file again.
C2_NoWriteAfterDelete ==
    \A c \in Cams : removed[c] => stats_file[c] = "absent"

\* The source two or more viewers of session s read from, None if there is none.
SharedSource(s) ==
    IF Cardinality(Viewers(s)) >= 2 /\ source_of(s) \in ProcIds
    THEN source_of(s) ELSE None

\* C3: broadcast with drop, for a session with two viewers attached.  The next
\* frame a viewer is given is the most recent one (earlier frames it did not
\* consume are dropped, not queued); the source is never held up by frames a
\* viewer has not consumed; and a frame sent to one viewer is also sent to,
\* held for or waiting for every other viewer that was attached before it.
C3_BroadcastWithDrop ==
    /\ \A s \in SessionIds :
        LET h == SharedSource(s)
        IN h # None =>
            /\ proc[h].pipe # <<>> => Head(proc[h].pipe) = produced
            /\ proc[h].state = "running" /\ use_subprocess_ffmpeg
                   => Len(proc[h].pipe) < PipeCap
    /\ \A v, w \in Threads :
        (/\ v # w
         /\ self[v] # None
         /\ v \in Viewers(self[v])
         /\ w \in Viewers(self[v])
         /\ last[v] # None
         /\ last[v] < produced
         /\ Sent(w, produced))
            => Sent(v, produced) \/ Queued(self[v], produced)

\* A call of read_frame by thread t ended in an exception.
ReadFrameRaised(t) == pc[t] = "raised" /\ self[t] # None /\ frame[t] = None

\* C4: every call of read_frame that returns no frame has waited the reconnect
\* backoff, and no exception leaves read_frame and ends the session loop.
C4_ReconnectBackoff ==
    \A t \in Threads : pc[t] # "ret_false" /\ ~ReadFrameRaised(t)

\* C5: for every frame read_frame returns the loop yields one encoded frame,
\* whatever raises in the iteration: the generator never ends on an exception
\* while it holds a frame it has not yielded.
C5_FrameAlwaysEmitted ==
    \A t \in Threads : pc[t] = "raised" => frame[t] = None

\* The zone file is absent or does not hold a zone document.
Malformed(f) ==
    ~f.exists \/ ~f.readable \/ ~f.parses \/ f.type # "object"
        \/ ~f.has_zones \/ ~f.zones_is_list

\* C6: load_zones never raises: on every zone file the program reaches it
\* returns a sequence, the empty one when the file is absent or malformed.
C6_LoadZonesNeverRaises ==
    \A c \in Cams :
        LET r == load_zones(zones_file[c])
        IN /\ ~r.raised
           /\ Malformed(zones_file[c]) => r.value = <<>>

\* C7: _release_capture always completes without raising, and the decoder it
\* released is not running afterwards.
C7_ReleaseCompletes ==
    \A t \in Threads : ~(pc[t] = "raised" /\ exc[t] = "TimeoutExpired")

\* C8: calls on the table for one camera id behave as if serialized: exactly
\* one session is constructed for each absent-to-present change of its entry.
C8_OneSessionPerTransition ==
    \A c \in Cams : constructed[c] = transitions[c]

\* C9: a lookup-or-create request for a camera whose session is present and
\* healthy ends without error (and constructs nothing).
C9_HealthyLookupSucceeds ==
    \A t \in Threads :
        (pc[t] = "raised" /\ self[t] = None /\ exc[t] = "AttributeError")
            => ~Healthy(active_cameras[tcam[t]])

\* A session is registered although no decoder or capture was ever opened:
\* its pipeline could not be constructed at session start.
FailedStartRegistered(c) ==
    /\ nprocs = 0
    /\ active_cameras[c] # None
    /\ ~is_connected[active_cameras[c]]
    /\ cap[active_cameras[c]] = None

\* C10 as claimed: a session whose decode pipeline could not be constructed at
\* session start is never entered into the active-session table.
C10_FailedStartNotRegistered ==
    \A c \in Cams : ~FailedStartRegistered(c)

\* C10 as amended: the failure to construct the pipeline at session start is
\* not surfaced to the caller: no request ends on the launch error, and every
\* session constructed, connected or not, was entered into the table.
C10_FailedStartIsRegistered ==
    /\ \A t \in Threads : ~(pc[t] = "raised" /\ exc[t] = "OSError")
    /\ \A s \in SessionIds : s <= nsessions => registered[s]

\* C10 witness: the launch failed at session start, the session is in the
\* table and the request that constructed it went on to its lookup.
C10_Witness ==
    \E c \in Cams, t \in Threads :
        FailedStartRegistered(c) /\ pc[t] = "vf_lookup" /\ tcam[t] = c

\* The tracked vehicle set, by class name.
Tracked == {"car", "motorcycle", "bus", "truck"}

\* The centroid of detection det lies in some zone of the zone list zs.
InSomeZone(det, zs) ==
    \E i \in 1..Len(polygons_only(zs)) :
        point_in_polygon(centroid(det.box), polygons_only(zs)[i])

\* Detection det is to be counted and kept under the zone list zs.
Kept(det, zs) == names[det.cls_id] \in Tracked /\ InSomeZone(det, zs)

\* The detections of the frame that are to be kept: their positions, and
\* those of class name n located in the zone of index z.
KeptAt == {i \in 1..Len(detections) : Kept(detections[i], zone_entries)}
KeptOf(n) == {i \in KeptAt : names[detections[i].cls_id] = n}
KeptIn(z, n) ==
    {i \in KeptOf(n) :
        check_point_in_zones(centroid(detections[i].box),
                             polygons_only(zone_entries)) = z}

\* The count of key n in the dict d, 0 when d has no such key.
CountOf(d, n) == IF n \in DOMAIN d THEN d[n] ELSE 0

\* The dict d holds the sizes of the sets S(n), and no key for an empty one.
Tallies(d, S(_)) ==
    /\ DOMAIN d = {n \in Tracked : S(n) # {}}
    /\ \A n \in Tracked : CountOf(d, n) = Cardinality(S(n))

\* C11: the aggregation counts a detection (in the total, in the count of its
\* class, in the count of its class in the zone check_point_in_zones locates
\* its centroid in) and keeps it for drawing if and only if its class is car,
\* motorcycle, bus or truck and its centroid lies in some zone; every other
\* detection changes no tally and is not kept.
C11_CountedIffTrackedInZone ==
    stats_data.set =>
        LET r == stats_data.value
            polys == polygons_only(zone_entries)
        IN /\ r.total_vehicles = Cardinality(KeptAt)
           /\ Tallies(r.vehicle_type_counts, KeptOf)
           /\ Len(r.zone_vehicle_counts) = Len(polys)
           /\ \A z \in 1..Len(polys) :
                  Tallies(r.zone_vehicle_counts[z], LAMBDA n : KeptIn(z - 1, n))
           /\ r.detections_to_plot =
                  SelectSeq(detections, LAMBDA d : Kept(d, zone_entries))

\* C11 witness: of two detections one was counted, the other, although its
\* centroid lies in a zone, was discarded for its class.
C11_Witness ==
    /\ stats_data.set
    /\ Len(detections) = 2
    /\ stats_data.value.total_vehicles = 1
    /\ \E i \in 1..2 :
        /\ InSomeZone(detections[i], zone_entries)
        /\ detections[i].cls_id \notin vehicle_class_ids

\* The dict {car: 1}.
CarOnce == [k \in {"car"} |-> 1]

\* One detection of class car with its box, as the only one of the frame.
OneCar(box) == detections = <<[box |-> box, cls_id |-> 2]>>

\* C12: with the gate (0,0),(100,0),(100,100),(0,100) as the only zone, one
\* car with box (40,40,60,60), centroid (50,50), gives total 1, class counts
\* {car: 1} and zone counts [{car: 1}]; one car with centroid (200,200)
\* gives total 0, class counts {} and zone counts [{}].
C12_GateScenario ==
    (stats_data.set /\ zone_entries = <<Gate>>) =>
        LET r == stats_data.value
        IN /\ OneCar(<<40, 40, 60, 60>>) =>
                /\ centroid(detections[1].box) = <<50, 50>>
                /\ r.total_vehicles = 1
                /\ r.vehicle_type_counts = CarOnce
                /\ r.zone_vehicle_counts = <<CarOnce>>
           /\ OneCar(<<190, 190, 210, 210>>) =>
                /\ centroid(detections[1].box) = <<200, 200>>
                /\ r.total_vehicles = 0
                /\ r.vehicle_type_counts = EmptyDict
                /\ r.zone_vehicle_counts = <<EmptyDict>>

\* C12 witness: the frame with the car at (50,50) was aggregated under the
\* gate.
C12_Witness ==
    /\ stats_data.set
    /\ zone_entries = <<Gate>>
    /\ OneCar(<<40, 40, 60, 60>>)
    /\ stats_data.value.total_vehicles = 1

\* The indices (from 0) of the polygons of the zone list that hold the point.
Holding ==
    {i \in 0..(Len(polygons_only(zone_entries)) - 1) :
        point_in_polygon(point, polygons_only(zone_entries)[i + 1])}

\* C13: check_point_in_zones returns the smallest index of a polygon that
\* holds the point, and -1 exactly when no polygon holds it; a second call on
\* the same inputs returns the same index.
C13_FirstMatch ==
    zone_idx.set =>
        /\ zone_idx.value = NoZone <=> Holding = {}
        /\ Holding # {} =>
            /\ zone_idx.value \in Holding
            /\ \A j \in Holding : zone_idx.value <= j
        /\ check_point_in_zones(point, polygons_only(zone_entries)) = zone_idx.value

\* C13 witness: two zones hold the point and the first one was returned.
C13_Witness ==
    /\ zone_idx.set
    /\ Cardinality(Holding) = 2
    /\ zone_idx.value = 0

\* The point pt lies on the segment from a to b.
on_segment(pt, a, b) ==
    /\ (b[1] - a[1]) * (pt[2] - a[2]) = (b[2] - a[2]) * (pt[1] - a[1])
    /\ Min(a[1], b[1]) <= pt[1] /\ pt[1] <= Max(a[1], b[1])
    /\ Min(a[2], b[2]) <= pt[2] /\ pt[2] <= Max(a[2], b[2])

\* The point pt lies on an edge or a vertex of the polygon poly.
on_boundary(pt, poly) ==
    \E i \in 1..Len(poly) : on_segment(pt, poly[i], poly[(i % Len(poly)) + 1])

\* The turn of the polygon at its point i: positive to the left.
Turn(poly, i) ==
    LET a == poly[i]
        b == poly[(i % Len(poly)) + 1]
        c == poly[((i + 1) % Len(poly)) + 1]
    IN (b[1] - a[1]) * (c[2] - b[2]) - (b[2] - a[2]) * (c[1] - b[1])

\* The polygon turns the same way, and does turn, at each of its points.
StrictlyConvex(poly) ==
    \/ \A i \in 1..Len(poly) : Turn(poly, i) > 0
    \/ \A i \in 1..Len(poly) : Turn(poly, i) < 0

\* C14: point_in_polygon classifies all points on the boundary of a polygon
\* alike: the result for a point on an edge or vertex of a (strictly convex)
\* polygon is the result for every other point on its edges and vertices.
C14_BoundaryConsistent ==
    (inside.set /\ StrictlyConvex(polygon) /\ on_boundary(point, polygon)) =>
        \A q \in Probes :
            on_boundary(q, polygon) => point_in_polygon(q, polygon) = inside.value

\* The point pt lies strictly outside the bounding box of the polygon poly.
OutsideBox(pt, poly) ==
    \/ \A i \in 1..Len(poly) : pt[1] < poly[i][1]
    \/ \A i \in 1..Len(poly) : pt[1] > poly[i][1]
    \/ \A i \in 1..Len(poly) : pt[2] < poly[i][2]
    \/ \A i \in 1..Len(poly) : pt[2] > poly[i][2]

\* C15: for every polygon of at least 3 points, point_in_polygon reports
\* "not inside" for every point strictly outside the polygon's bounding box.
C15_OutsideBoxNotInside ==
    (inside.set /\ OutsideBox(point, polygon)) => ~inside.value

\* C15 witness: the point lies left of the box of a polygon of four points
\* that is not convex, edges of the polygon flip the result, and the result
\* is "not inside".
C15_Witness ==
    /\ inside.set
    /\ ~inside.value
    /\ Len(polygon) = 4
    /\ ~StrictlyConvex(polygon)
    /\ \A i \in 1..4 : point[1] < polygon[i][1]
    /\ \E i \in 1..4 :
        edge_toggles(point[1], point[2], polygon[i][1], polygon[i][2],
                     polygon[(i % 4) + 1][1], polygon[(i % 4) + 1][2])

\* C16: a stopped session is terminal: once delete_camera has released a
\* session and dropped its entry, the session holds no decoder and no capture
\* again, whatever its viewers call on it: it does not reconnect.
C16_StoppedIsTerminal ==
    \A s \in SessionIds :
        stopped[s] => (cap[s] = None /\ ffmpeg_process[s] = None)

\* C17: every viewer of a session that was stopped ends: its generator leaves
\* the session loop, or at least comes to rest in a read of the source
\* instead of going round the loop for ever.
C17_ViewersEnd ==
    \A t \in Threads :
        (self[t] # None /\ stopped[self[t]])
            ~> (self[t] = None \/ pc[t] = "reading")

\* C18: the stats handler never fails: whatever the session loop is doing to
\* the stats file, it returns the last complete snapshot or an empty result.
C18_StatsNeverFails ==
    \A t \in Threads : ~(pc[t] = "raised" /\ exc[t] = "JSONDecodeError")

\* C19: _release_capture is idempotent and safe in every state of a session:
\* whether the decoder exits in time or not, a call raises nothing and leaves
\* neither decoder nor capture held, and a second call raises nothing and
\* leaves the session as the first call left it.
C19_ReleaseIdempotent ==
    \A s \in SessionIds, e1, e2 \in BOOLEAN :
        LET once == release_outcome(cap[s], ffmpeg_process[s], e1)
            twice == release_outcome(once.cap, once.ffmpeg_process, e2)
        IN /\ ~once.raised
           /\ once.cap = None /\ once.ffmpeg_process = None
           /\ ~twice.raised
           /\ twice.cap = once.cap /\ twice.ffmpeg_process = once.ffmpeg_process

\* C20: the step of delete_camera on the table ends without error with the
\* id absent from the table, and changes neither the table nor any session
\* or decoder when the id was absent before.
C20_RemoveStopsAndDrops ==
    [][\A t \in Threads :
          (pc[t] = "del_session" /\ pc'[t] # "del_session") =>
              /\ pc'[t] = "del_files"
              /\ active_cameras'[tcam[t]] = None
              /\ active_cameras[tcam[t]] = None =>
                    UNCHANGED <<active_cameras, sessvars, procvars>>]_vars

\* The viewers of threads ta and tb are attached to sessions of two cameras.
OtherCamera(ta, tb) ==
    /\ self[ta] # None
    /\ self[tb] # None
    /\ cam_id[self[ta]] # cam_id[self[tb]]

\* Thread t is in the read of a live source that has no frame for it.
AwaitsOwnSource(t) ==
    /\ pc[t] = "reading"
    /\ source_of(self[t]) \in ProcIds
    /\ proc[source_of(self[t])].state = "running"
    /\ proc[source_of(self[t])].pipe = <<>>

\* The loop of thread t is in a read, in the processing of a frame or has
\* just slept the reconnect backoff.
Held(t) == pc[t] \in {"reading", "got_frame", "dumping", "ret_false_slept"}

\* Thread t is inside the session loop.
InLoop(t) ==
    pc[t] \in {"read_frame", "reading", "ret_false", "ret_false_slept",
               "got_frame", "dumping"}

\* C21: the loops of different cameras are independent: while the loop of one
\* camera is held in a read, in the processing of a frame or in the reconnect
\* backoff, the loop of another camera can take its next step, unless it
\* waits for a frame of its own source.
C21_CamerasIndependent ==
    \A ta, tb \in Threads :
        (/\ OtherCamera(ta, tb)
         /\ Held(ta)
         /\ InLoop(tb)
         /\ ~AwaitsOwnSource(tb))
            => ENABLED LoopStep(tb)

\* C21 witness: the loop of one camera waits in the read of its source, and
\* the viewer of another camera, sent a frame before, is about to read the next.
C21_Witness ==
    \E ta, tb \in Threads :
        /\ OtherCamera(ta, tb)
        /\ AwaitsOwnSource(ta)
        /\ pc[tb] = "read_frame"
        /\ last[tb] # None

\* C22: a read of read_frame that fails while the session is connected
\* returns "no frame" with the session's source released and the session
\* marked not connected; it raises nothing.
C22_ReadFailureReleases ==
    [][\A t \in Threads :
          (/\ pc[t] = "reading"
           /\ pc'[t] \notin {"reading", "got_frame"}
           /\ is_connected[self[t]]) =>
              /\ pc'[t] = "ret_false"
              /\ frame'[t] = None
              /\ ~is_connected'[self[t]]
              /\ IF use_subprocess_ffmpeg
                 THEN ffmpeg_process'[self[t]] = None
                 ELSE cap'[self[t]] \in ProcIds =>
                         proc'[cap'[self[t]]].state = "dead"]_vars

\* C23: the zone list load_zones returns, and the list generate keeps of it,
\* holds no zone whose point list has fewer than 3 points.
C23_LoadedZonesHaveThreePoints ==
    (loaded.set /\ ~loaded.value.raised) =>
        \A i \in 1..Len(valid_zones(loaded.value.value)) :
            Len(valid_zones(loaded.value.value)[i].points) >= 3

\* The indices (from 0) of the kept zones that have fewer than 3 points.
Degenerate ==
    {i \in 0..(Len(polygons_only(zone_entries)) - 1) :
        Len(polygons_only(zone_entries)[i + 1]) < 3}

\* C24: a zone with fewer than 3 points is left out of containment and of
\* drawing: point_in_polygon reports "not contained" for every point against
\* it, no detection of the frame is counted in it, and it is not drawn.
C24_DegenerateZoneExcluded ==
    (stats_data.set /\ overlay.set) =>
        \A i \in Degenerate :
            /\ \A b \in Boxes :
                  ~point_in_polygon(centroid(b), polygons_only(zone_entries)[i + 1])
            /\ stats_data.value.zone_vehicle_counts[i + 1] = EmptyDict
            /\ i \notin overlay.value

\* C24 witness: a frame with a tracked vehicle on the segment of a zone of
\* two points was aggregated and annotated: another zone was drawn, the zone
\* of two points was not.
C24_Witness ==
    /\ stats_data.set
    /\ overlay.set
    /\ Degenerate # {}
    /\ overlay.value # {}
    /\ \E k \in 1..Len(detections) :
        /\ detections[k].cls_id \in vehicle_class_ids
        /\ centroid(detections[k].box) = <<50, 50>>

\* The position (from 1) in the zone list of the first kept zone that holds
\* the centroid of detection det, 0 when there is none.
FirstEntry(det) ==
    LET at == {i \in 1..Len(zone_entries) :
                  /\ zone_valid(zone_entries[i])
                  /\ point_in_polygon(centroid(det.box), zone_entries[i].points)}
    IN IF at = {} THEN 0 ELSE CHOOSE i \in at : \A j \in at : i <= j

\* C25: zone_vehicle_counts has one entry for each zone of the camera's zone
\* list, in the order of the list: entry i holds the counts of the detections
\* located in zone i of the list, also when entries of the list are skipped.
C25_CountsAlignedWithZoneList ==
    stats_data.set =>
        /\ Len(stats_data.value.zone_vehicle_counts) = Len(zone_entries)
        /\ \A i \in 1..Len(zone_entries) :
              Tallies(stats_data.value.zone_vehicle_counts[i],
                      LAMBDA n : {k \in KeptOf(n) : FirstEntry(detections[k]) = i})

\* C26: every iteration works on the zones of the zone file as it is when the
\* iteration loads them, whatever an earlier iteration was given.
C26_ZonesReloadedEachIteration ==
    [][zone_file' = zone_file =>
          (loaded'.set /\ loaded'.value = load_zones(zone_file))]_vars

\* C26 witness: the iteration after an edit of the zone file was given the
\* zones of the edited file, other than the iteration before.
C26_Witness ==
    /\ loaded.set
    /\ stale.set
    /\ loaded.value # stale.value
    /\ ~loaded.value.raised
    /\ loaded.value.value # <<>>
    /\ loaded.value = load_zones(zone_file)

\* Edge i of the polygon: from its point i to the next, the first after the last.
EdgeFrom(poly, i) == poly[i]
EdgeTo(poly, i) == poly[(i % Len(poly)) + 1]

\* C27: point_in_polygon never divides by zero: for every point and every
\* polygon, with horizontal edges and repeated points or not, the quotient of
\* line 38 is evaluated only for an edge with p1y # p2y, and the call returns
\* a boolean.
C27_NoDivisionByZero ==
    inside.set =>
        /\ inside.value \in BOOLEAN
        /\ \A i \in 1..Len(polygon) :
              division_reached(point[1], point[2],
                               EdgeFrom(polygon, i)[1], EdgeFrom(polygon, i)[2],
                               EdgeTo(polygon, i)[1], EdgeTo(polygon, i)[2])
                  => EdgeTo(polygon, i)[2] - EdgeFrom(polygon, i)[2] # 0

\* C27 witness: the call returned for a point at the height of a horizontal
\* edge, not right of it, of a polygon that also repeats a point.
C27_Witness ==
    /\ inside.set
    /\ \E i \in 1..Len(polygon) :
        /\ EdgeFrom(polygon, i) # EdgeTo(polygon, i)
        /\ EdgeFrom(polygon, i)[2] = point[2]
        /\ EdgeTo(polygon, i)[2] = point[2]
        /\ point[1] <= Max(EdgeFrom(polygon, i)[1], EdgeTo(polygon, i)[1])
    /\ \E i, j \in 1..Len(polygon) : i # j /\ polygon[i] = polygon[j]

\* C28: the session loop recovers: once a read of read_frame has given the
\* loop of a viewer a frame, whatever failures came before, a frame is
\* emitted to the viewer.
C28_LoopRecovers ==
    \A t \in Threads :
        (pc[t] = "got_frame") ~> (pc[t] = "read_frame" /\ last[t] # None)

\* The sum of the counts of the dict d over its keys in S.
RECURSIVE SumOver(_, _)
SumOver(d, S) ==
    IF S = {} THEN 0
    ELSE LET k == CHOOSE x \in S : TRUE
         IN d[k] + SumOver(d, S \ {k})

\* The sum of all counts of the dicts of the sequence ds from position i on.
RECURSIVE SumFrom(_, _)
SumFrom(ds, i) ==
    IF i > Len(ds) THEN 0
    ELSE SumOver(ds[i], DOMAIN ds[i]) + SumFrom(ds, i + 1)

\* Every count of the dict d is at least 1 and is the count of a tracked class.
WellFormed(d) == \A k \in DOMAIN d : d[k] >= 1 /\ k \in Tracked

\* C29: every snapshot is consistent: total_vehicles is the sum of the counts
\* by class and the sum of the counts by zone and class; every count stored
\* is at least 1, and of one of car, motorcycle, bus, truck.
C29_SnapshotConsistent ==
    stats_data.set =>
        LET r == stats_data.value
        IN /\ r.total_vehicles =
                  SumOver(r.vehicle_type_counts, DOMAIN r.vehicle_type_counts)
           /\ r.total_vehicles = SumFrom(r.zone_vehicle_counts, 1)
           /\ WellFormed(r.vehicle_type_counts)
           /\ \A z \in 1..Len(r.zone_vehicle_counts) :
                  WellFormed(r.zone_vehicle_counts[z])

\* C29 witness: two vehicles of one class were counted in one zone.
C29_Witness ==
    /\ stats_data.set
    /\ stats_data.value.total_vehicles = 2
    /\ \E n \in Tracked, z \in 1..Len(stats_data.value.zone_vehicle_counts) :
        CountOf(stats_data.value.zone_vehicle_counts[z], n) = 2

\* C30: no decoder process is orphaned: every decoder that was launched and
\* runs is the decoder of the session registered for its camera.
C30_NoOrphanDecoder ==
    use_subprocess_ffmpeg =>
        \A h \in ProcIds :
            proc[h].state = "running" =>
                \E c \in Cams :
                    /\ active_cameras[c] # None
                    /\ ffmpeg_process[active_cameras[c]] = h

\* A method of the session s is executing: a viewer's loop is inside read_frame.
Executing(s) == \E t \in Threads : self[t] = s /\ pc[t] = "reading"

\* C31: whenever no method of a session is executing, its connection flag
\* agrees with the resource it holds: is_connected implies that a capture
\* handle (in subprocess mode, ffmpeg_process) is held.
C31_ConnectedHoldsHandle ==
    \A s \in SessionIds :
        (is_connected[s] /\ ~Executing(s)) => source_of(s) # None

\* The delete_camera request of thread t ends with this step by the exception
\* that its release of the session raised.
DeleteEndsByError(t) ==
    /\ pc'[t] = "idle"
    /\ pc[t] = "raised" /\ self[t] = None /\ exc[t] = "TimeoutExpired"

\* C32: delete_camera is all-or-nothing, also when the request ends by an
\* error raised while the session is released: when it ends, the camera is
\* still in the config, or it is absent from the config and from
\* active_cameras and its zones file and stats file are removed.
C32_DeleteAllOrNothing ==
    [][\A t \in Threads :
          DeleteEndsByError(t) =>
              \/ tcam[t] \in config'
              \/ /\ active_cameras'[tcam[t]] = None
                 /\ zones_file'[tcam[t]] = FileAbsent
                 /\ stats_file'[tcam[t]] = "absent"]_vars


\* C33: the two session variants are equivalent on statistics: for every
\* list of detections, of any classes, and every list of zones, the loop body
\* of src/detect.py and the one of src/services/detect.py write the same
\* total, counts by class and counts by zone, and keep the same detections.
C33_VariantsEquivalent ==
    (stats_data.set /\ services_stats.set) =>
        /\ services_stats.value.total_vehicles = stats_data.value.total_vehicles
        /\ services_stats.value.vehicle_type_counts
               = stats_data.value.vehicle_type_counts
        /\ services_stats.value.zone_vehicle_counts
               = stats_data.value.zone_vehicle_counts
        /\ services_stats.value.detections_in_zones
               = stats_data.value.detections_to_plot

\* C33 witness: both variants have written their tallies for a frame with a
\* person inside a zone and a truck inside a zone.
C33_Witness ==
    /\ stats_data.set
    /\ services_stats.set
    /\ stats_data.value.total_vehicles = 1
    /\ \E i, j \in 1..Len(detections) :
        /\ detections[i].cls_id = 0
        /\ InSomeZone(detections[i], zone_entries)
        /\ detections[j].cls_id = 7
        /\ Kept(detections[j], zone_entries)
====
